---- MODULE Spec2Model ----
(***************************************************************************)
(* The extraction pipeline of thebeesscrapedknees.com: the tables pages,   *)
(* html, etl and etl_run, the route handlers that read and write them, the *)
(* two collaborator calls (/pages/learn-etl, /pages/execute-etl) and the   *)
(* retrain dialog of the ExtractionsSection component.                     *)
(*                                                                         *)
(* A handler that awaits a collaborator is two steps: everything up to the *)
(* fetch, and everything from the response on.  Requests waiting for the   *)
(* collaborator are the bag inflight.  Every other handler is one step.    *)
(* last is the response of the step just taken (status 0: the request is   *)
(* still waiting for the collaborator).  client is the page view open in   *)
(* the browser: its props and the events its channel etl_runs has received *)
(* and not handled yet; etlRuns is the state of that name of the view.     *)
(***************************************************************************)
EXTENDS Integers, Sequences, FiniteSets, Bags, TLC

VARIABLES pages, html, etl, etl_run, ids, inflight, retrainConfig, last,
          etlRuns, client

vars ==
  <<pages, html, etl, etl_run, ids, inflight, retrainConfig, last,
    etlRuns, client>>

tables == <<pages, html, etl, etl_run, ids>>

(***************************************************************************)
(* Bounds.                                                                 *)
(***************************************************************************)
\* rows ever inserted, over the four tables
MaxRows == 5
\* requests waiting for a collaborator at the same time
MaxInflight == 2

(***************************************************************************)
(* Values.  Text is a sequence of characters; NULL is the text that is SQL *)
(* NULL, an absent JSON field or JavaScript undefined.  An id is a number  *)
(* from 1, and 0 is the id that is absent.  An optional row or object is a *)
(* sequence of length 0 or 1.                                              *)
(***************************************************************************)
NULL == <<"NULL">>

None == <<>>

Some(x) == <<x>>

Users == {"u1"}

Urls == {"", "https://a"}

\* the urls a page is updated to
PutUrls == {"https://b"}

Whitespace == {" ", "\n"}

Goals == {<<>>, <<"g">>}

Refinements == {<<" ">>, <<"r">>}

Codes == {NULL, <<>>, <<" ">>, <<"x">>}

Schema1 == {"title", "price"}

Outputs == {"out"}

\* String.prototype.trim
RECURSIVE TrimStart(_)
TrimStart(s) ==
  IF s # <<>> /\ Head(s) \in Whitespace THEN TrimStart(Tail(s)) ELSE s

RECURSIVE TrimEnd(_)
TrimEnd(s) ==
  IF s # <<>> /\ s[Len(s)] \in Whitespace
    THEN TrimEnd(SubSeq(s, 1, Len(s) - 1))
    ELSE s

trim(s) == TrimEnd(TrimStart(s))

\* the test for null and undefined only
Falsy_NullOnly(v) == v = NULL

\* JavaScript !v for a text that may be null or undefined
Falsy(v) == v = NULL \/ v = <<>>

(***************************************************************************)
(* Rows.                                                                   *)
(***************************************************************************)
RowsEver == ids.pages + ids.html + ids.etl + ids.etl_run

\* id UUID PRIMARY KEY DEFAULT uuid_generate_v4(), with an id handed out twice
NewId_Reused(t) == IF ids[t] = 0 THEN 1 ELSE ids[t]

\* id UUID PRIMARY KEY DEFAULT uuid_generate_v4(): an id never handed out
NewId(t) == ids[t] + 1

\* created_at TIMESTAMP WITH TIME ZONE DEFAULT NOW(): the time of the insert,
\* later than the time of every insert before it.  The times of two tables
\* are never compared, so the time is kept as the rank of the insert among
\* the inserts into its table.
NOW(t) == ids[t] + 1

\* an id a caller can name: any id handed out so far
KnownIds(t) == 1 .. ids[t]

\* the same for an optional parameter or field: 0 is none
OptionalIds(t) == 0 .. ids[t]

\* .select().eq(...).single(): the one matching row, or an error
Single(rows) ==
  IF Cardinality(rows) = 1 THEN Some(CHOOSE r \in rows : TRUE) ELSE None

PageOf(user, pageId) ==
  Single({p \in pages : p.id = pageId /\ p.user_id = user})

EtlOf(user, pageId, etlId) ==
  Single({e \in etl : e.id = etlId /\ e.page_id = pageId /\ e.user_id = user})

\* the lookup without .eq("page_id", pageId)
HtmlOf_AnyPage(user, pageId, htmlId) ==
  Single({h \in html : h.id = htmlId /\ h.user_id = user})

\* the lookup without .eq("id", ...): the oldest snapshot of the page
HtmlOf_AnyId(user, pageId, htmlId) ==
  LET rows == {h \in html : h.page_id = pageId /\ h.user_id = user}
  IN IF rows = {} THEN None
     ELSE Some(CHOOSE h \in rows : \A q \in rows : h.id <= q.id)

HtmlOf(user, pageId, htmlId) ==
  Single({h \in html : h.id = htmlId /\ h.page_id = pageId /\ h.user_id = user})

\* .order("created_at", { ascending: true })
RECURSIVE OrderAscending(_)
OrderAscending(rows) ==
  IF rows = {} THEN <<>>
  ELSE LET first == CHOOSE r \in rows :
                      \A q \in rows : r.created_at <= q.created_at
       IN <<first>> \o OrderAscending(rows \ {first})

\* .order("created_at", { ascending: false })
RECURSIVE OrderDescending(_)
OrderDescending(rows) ==
  IF rows = {} THEN <<>>
  ELSE LET first == CHOOSE r \in rows :
                      \A q \in rows : q.created_at <= r.created_at
       IN <<first>> \o OrderDescending(rows \ {first})

\* searchParams.get of a parameter the URL does not have
NoParam == 0 - 1

\* parseInt(limit || "10")
DefaultLimit == 10

\* the <<limit, offset>> query parameters a caller sends: none, a limit, an
\* offset, both
Paginations ==
  {<<NoParam, NoParam>>, <<1, NoParam>>, <<NoParam, 1>>, <<1, 1>>}

\* if (limit) query.limit(l); if (offset) query.range(o, o + (limit || 10) - 1):
\* range sends offset = o and limit = to - from + 1
Paginate(list, limit, offset) ==
  LET from == IF offset = NoParam THEN 0 ELSE offset
      count == IF limit # NoParam THEN limit
               ELSE IF offset # NoParam THEN DefaultLimit
               ELSE Len(list)
      to == IF from + count < Len(list) THEN from + count ELSE Len(list)
  IN SubSeq(list, from + 1, to)

Response(op, user, pageId, status, error, made) ==
  [op |-> op, user |-> user, pageId |-> pageId, status |-> status,
   error |-> error, made |-> made, etlId |-> 0, htmlId |-> 0,
   goal |-> NULL, calls |-> 0, data |-> <<>>, limit |-> NoParam,
   offset |-> NoParam, details |-> ""]

\* gzipAsync(Buffer.from(html, "utf-8")): the compressed bytes of the text
Gzip(text) == [gzip |-> text]

\* buffer.toString("base64")
Base64(buffer) == [base64 |-> buffer]

\* a request waiting for a collaborator: what the handler keeps until the
\* answer, and the html and the code it sent
Request(op, user, pageId, etlId, htmlId, goal, text, etl_function_code) ==
  [op |-> op, user |-> user, pageId |-> pageId, etlId |-> etlId,
   htmlId |-> htmlId, goal |-> goal, html |-> Base64(Gzip(text)),
   etl_function_code |-> etl_function_code]

Waiting == BagCardinality(inflight)

\* no page view is open: no client state, and nobody listens to the changes
Unmounted ==
  [pageId |-> 0, userId |-> "", initialEtlRuns |-> <<>>,
   subscribed |-> FALSE, events |-> <<>>]

\* a row can still be inserted: every waiting request may insert one
Room == RowsEver + Waiting < MaxRows

Init ==
  /\ pages = {}
  /\ html = {}
  /\ etl = {}
  /\ etl_run = {}
  /\ ids = [pages |-> 0, html |-> 0, etl |-> 0, etl_run |-> 0]
  /\ inflight = EmptyBag
  /\ retrainConfig = None
  /\ last = Response("none", "", 0, 0, "", 0)
  /\ etlRuns = <<>>
  /\ client = Unmounted

(***************************************************************************)
(* POST /api/pages                                                         *)
(***************************************************************************)
PagesPOST(user, url) ==
  /\ IF url = ""
       THEN /\ last' = Response("pages.POST", user, 0, 400, "URL is required", 0)
            /\ UNCHANGED <<pages, ids>>
       ELSE LET id == NewId("pages") IN
            /\ Room
            /\ pages' = pages \cup {[id |-> id, user_id |-> user, url |-> url,
                                    created_at |-> NOW("pages")]}
            /\ ids' = [ids EXCEPT !.pages = id]
            /\ last' = Response("pages.POST", user, id, 201, "", id)
  /\ UNCHANGED <<html, etl, etl_run, inflight, retrainConfig>>

(***************************************************************************)
(* PUT /api/pages : update the caller's page of that id and answer with    *)
(* .select().single(), an error when no row was updated.                   *)
(***************************************************************************)
\* the error of .single() when the filter matched no row
NoRows == "JSON object requested, multiple (or no) rows returned"

\* the update that also rewrites the url kept in the snapshots' meta
PagesPUT_RewritesMeta(user, id, url) ==
  /\ PageOf(user, id) # None
  /\ pages' = {IF p.id = id THEN [p EXCEPT !.url = url] ELSE p : p \in pages}
  /\ html' = {IF h.page_id = id THEN [h EXCEPT !.meta.url = url] ELSE h : h \in html}
  /\ last' = Response("pages.PUT", user, id, 200, "", 0)
  /\ UNCHANGED <<etl, etl_run, ids, inflight, retrainConfig>>

\* the update without .eq("id", id)
PagesPUT_EveryPage(user, id, url) ==
  /\ PageOf(user, id) # None
  /\ pages' = {IF p.user_id = user THEN [p EXCEPT !.url = url] ELSE p :
                 p \in pages}
  /\ last' = Response("pages.PUT", user, id, 200, "", 0)
  /\ UNCHANGED <<html, etl, etl_run, ids, inflight, retrainConfig>>

PagesPUT(user, id, url) ==
  /\ IF id = 0
       THEN /\ last' = Response("pages.PUT", user, id, 400, "Page ID is required", 0)
            /\ UNCHANGED pages
     ELSE IF PageOf(user, id) = None
       THEN /\ last' = Response("pages.PUT", user, id, 400,
                                NoRows, 0)
            /\ UNCHANGED pages
     ELSE /\ pages' = {IF p.id = id /\ p.user_id = user
                         THEN [p EXCEPT !.url = url] ELSE p : p \in pages}
          /\ last' = Response("pages.PUT", user, id, 200, "", 0)
  /\ UNCHANGED <<html, etl, etl_run, ids, inflight, retrainConfig>>

(***************************************************************************)
(* DELETE /api/pages?id= : the row goes, and ON DELETE CASCADE takes the   *)
(* page's html and etl rows and the etl_run rows of those.                 *)
(***************************************************************************)
CascadeHtml(gone) == {h \in html : h.page_id \notin gone}

\* definitions outliving their page
CascadeEtl_Kept(gone) == etl

CascadeEtl(gone) == {e \in etl : e.page_id \notin gone}

CascadeRuns(keptHtml, keptEtl) ==
  {r \in etl_run : /\ \E h \in keptHtml : h.id = r.html
                   /\ \E e \in keptEtl : e.id = r.etl_id}

PagesDELETE(user, pageId) ==
  /\ IF pageId = 0
       THEN /\ last' = Response("pages.DELETE", user, pageId, 400,
                                "Page ID is required", 0)
            /\ UNCHANGED <<pages, html, etl, etl_run>>
       ELSE LET gone == {p.id : p \in {q \in pages : q.id = pageId /\ q.user_id = user}}
                keptHtml == CascadeHtml(gone)
                keptEtl == CascadeEtl(gone)
            IN /\ pages' = {p \in pages : p.id \notin gone}
               /\ html' = keptHtml
               /\ etl' = keptEtl
               /\ etl_run' = CascadeRuns(keptHtml, keptEtl)
               /\ last' = Response("pages.DELETE", user, pageId, 200, "", 0)
  /\ UNCHANGED <<ids, inflight, retrainConfig>>

(***************************************************************************)
(* POST /api/pages/{pageId}/html : fetch the page through the scraper and  *)
(* store the answer.                                                       *)
(***************************************************************************)
ScrapeResponses ==
  {[ok |-> FALSE, status |-> 502, html |-> NULL],
   [ok |-> TRUE, status |-> 200, html |-> NULL],
   [ok |-> TRUE, status |-> 200, html |-> <<>>],
   [ok |-> TRUE, status |-> 200, html |-> <<"A">>]}

\* meta: { url: page.url, ..., response_status: htmlRes.status, ... }
HtmlMeta(page, htmlRes) ==
  [url |-> page.url, response_status |-> htmlRes.status]

HtmlPOST(user, pageId, htmlRes) ==
  /\ LET page == PageOf(user, pageId)
         id == NewId("html")
     IN IF page = None
          THEN /\ last' = Response("html.POST", user, pageId, 404,
                                   "Page not found or access denied", 0)
               /\ UNCHANGED <<html, ids>>
        ELSE IF ~htmlRes.ok
          THEN /\ last' = Response("html.POST", user, pageId, htmlRes.status,
                                   "Failed to fetch HTML from scraping service", 0)
               /\ UNCHANGED <<html, ids>>
        ELSE IF Falsy(htmlRes.html)
          THEN /\ last' = Response("html.POST", user, pageId, 500,
                                   "No HTML data returned from the scraper", 0)
               /\ UNCHANGED <<html, ids>>
        ELSE /\ Room
             /\ html' = html \cup {[id |-> id, page_id |-> pageId,
                                    user_id |-> user, html |-> htmlRes.html,
                                    meta |-> HtmlMeta(page[1], htmlRes),
                                    created_at |-> NOW("html")]}
             /\ ids' = [ids EXCEPT !.html = id]
             /\ last' = Response("html.POST", user, pageId, 201, "", id)
  /\ UNCHANGED <<pages, etl, etl_run, inflight, retrainConfig>>

(***************************************************************************)
(* INSERT INTO etl: the NOT NULL columns and fk_page_id.  There is no      *)
(* foreign key on html_page_run_id.                                        *)
(***************************************************************************)
EtlInsertError(row) ==
  IF row.goal = NULL THEN "null value in column goal"
  ELSE IF row.src_code = NULL THEN "null value in column src_code"
  ELSE IF row.html_page_run_id = 0 THEN "null value in column html_page_run_id"
  ELSE IF ~\E p \in pages : p.id = row.page_id THEN "violates fk_page_id"
  ELSE ""

EtlRow(id, user, pageId, body) ==
  [id |-> id, user_id |-> user, page_id |-> pageId, etl_name |-> body.etl_name,
   goal |-> body.goal, src_code |-> body.src_code,
   html_page_run_id |-> body.html_page_run_id,
   output_json_schema |-> body.output_json_schema, created_at |-> NOW("etl")]

EtlBody(goal, htmlId, name, code, schema) ==
  [goal |-> goal, html_page_run_id |-> htmlId, etl_name |-> name,
   src_code |-> code, output_json_schema |-> schema]

(***************************************************************************)
(* POST /api/pages/{pageId}/etl : store the body as a definition.  op and  *)
(* parent only label the response.                                         *)
(***************************************************************************)
EtlRoutePOST(op, parent, user, pageId, body) ==
  LET page == PageOf(user, pageId)
      htmlRun == HtmlOf(user, pageId, body.html_page_run_id)
      id == NewId("etl")
      etlData == EtlRow(id, user, pageId, body)
      error == EtlInsertError(etlData)
      answer(status, msg, made) ==
        [Response(op, user, pageId, status, msg, made)
           EXCEPT !.etlId = parent, !.htmlId = body.html_page_run_id,
                  !.goal = body.goal]
  IN IF page = None
       THEN /\ last' = answer(404, "Page not found or access denied", 0)
            /\ UNCHANGED <<etl, ids>>
     ELSE IF Falsy(body.goal)
       THEN /\ last' = answer(400, "Goal is required", 0)
            /\ UNCHANGED <<etl, ids>>
     ELSE IF body.html_page_run_id = 0
       THEN /\ last' = answer(400, "HTML run selection is required", 0)
            /\ UNCHANGED <<etl, ids>>
     ELSE IF htmlRun = None
       THEN /\ last' = answer(404, "HTML run not found or access denied", 0)
            /\ UNCHANGED <<etl, ids>>
     ELSE IF error # ""
       THEN /\ last' = answer(400, error, 0)
            /\ UNCHANGED <<etl, ids>>
     ELSE /\ Room
          /\ etl' = etl \cup {etlData}
          /\ ids' = [ids EXCEPT !.etl = id]
          /\ last' = answer(201, "", id)

\* a caller of the API posts a body of their own
ApiBodies(htmlId) ==
  {EtlBody(<<"g">>, htmlId, NULL, code, None) : code \in {NULL, <<>>, <<"x">>}}
  \cup {EtlBody(<<>>, htmlId, NULL, <<"x">>, None)}

EtlPOST(user, pageId, body) ==
  /\ EtlRoutePOST("etl.POST", 0, user, pageId, body)
  /\ UNCHANGED <<pages, html, etl_run, inflight, retrainConfig>>

(***************************************************************************)
(* ExtractionsSection: the Re-train button and the retrain dialog.  The    *)
(* component shows the definitions of one page to their owner.             *)
(***************************************************************************)
\* the buttons never disabled for training
isTraining_Never(e) == FALSE

\* the definition is shown as Training... and its buttons are disabled
isTraining(e) == Falsy(e.src_code) \/ trim(e.src_code) = <<>>

\* the Run button of the definition is spinning
isRunning(e) ==
  \E r \in BagToSet(inflight) : r.op = "run" /\ r.etlId = e.id

handleRetrainClick(e) ==
  /\ e \in etl
  /\ ~(isRunning(e) \/ isTraining(e))
  /\ retrainConfig' = Some(e)
  /\ last' = Response("none", "", 0, 0, "", 0)
  /\ UNCHANGED <<tables, inflight>>

\* `${retrainConfig.goal}\n\nRefinement Goal: ${refinementGoal}`
RetrainGoal(goal, refinementGoal) ==
  goal \o <<"\n", "\n", "Refinement Goal: ">> \o refinementGoal

\* `${retrainConfig.etl_name || "Untitled"} - Retrained`
RetrainName(etl_name) ==
  (IF Falsy(etl_name) THEN <<"Untitled">> ELSE etl_name) \o <<" - Retrained">>

RetrainBody(config, refinementGoal) ==
  [goal |-> RetrainGoal(config.goal, refinementGoal),
   html_page_run_id |-> config.html_page_run_id,
   etl_name |-> RetrainName(config.etl_name),
   src_code |-> NULL,
   output_json_schema |-> None]

handleRetrain(refinementGoal) ==
  /\ retrainConfig # None
  /\ trim(refinementGoal) # <<>>
  /\ LET config == retrainConfig[1] IN
       /\ EtlRoutePOST("retrain", config.id, config.user_id, config.page_id,
                       RetrainBody(config, refinementGoal))
       /\ retrainConfig' = IF last'.status = 201 THEN None ELSE retrainConfig
  /\ UNCHANGED <<pages, html, etl_run, inflight>>

(***************************************************************************)
(* POST /api/pages/{pageId}/etl/learn                                      *)
(***************************************************************************)
\* what a collaborator says of its failure: the message of the error fetch
\* throws when the service cannot be reached, and the body of an answer
\* with a non-success status
Refused == "connect ECONNREFUSED"

Traceback == "Traceback (most recent call last)"

GenResponses ==
  {[fetch |-> "throws", ok |-> FALSE, json |-> FALSE, errorText |-> Refused,
    etl_function_code |-> NULL, entities_schema |-> None],
   [fetch |-> "answers", ok |-> FALSE, json |-> TRUE, errorText |-> Traceback,
    etl_function_code |-> NULL, entities_schema |-> None],
   [fetch |-> "answers", ok |-> TRUE, json |-> FALSE, errorText |-> "",
    etl_function_code |-> NULL, entities_schema |-> None]}
  \cup
  {[fetch |-> "answers", ok |-> TRUE, json |-> TRUE, errorText |-> "",
    etl_function_code |-> c, entities_schema |-> None] : c \in Codes}
  \cup
  {[fetch |-> "answers", ok |-> TRUE, json |-> TRUE, errorText |-> "",
    etl_function_code |-> <<"x">>, entities_schema |-> Some(Schema1)]}

LearnAnswer(r, status, msg, made, calls) ==
  [Response("learn", r.user, r.pageId, status, msg, made)
     EXCEPT !.htmlId = r.htmlId, !.goal = r.goal, !.calls = calls]

\* up to the fetch of /pages/learn-etl
LearnPOSTCall(user, pageId, goal, html_page_run_id) ==
  /\ LET htmlRunData == HtmlOf(user, pageId, html_page_run_id)
         r == Request("learn", user, pageId, 0, html_page_run_id, goal,
                      IF htmlRunData = None THEN NULL ELSE htmlRunData[1].html,
                      NULL)
     IN IF PageOf(user, pageId) = None
          THEN /\ last' = LearnAnswer(r, 404, "Page not found or access denied", 0, 0)
               /\ UNCHANGED inflight
        ELSE IF Falsy(goal)
          THEN /\ last' = LearnAnswer(r, 400, "Goal is required", 0, 0)
               /\ UNCHANGED inflight
        ELSE IF html_page_run_id = 0
          THEN /\ last' = LearnAnswer(r, 400, "HTML run selection is required", 0, 0)
               /\ UNCHANGED inflight
        ELSE IF htmlRunData = None
          THEN /\ last' = LearnAnswer(r, 404, "HTML run not found or access denied", 0, 0)
               /\ UNCHANGED inflight
        ELSE /\ Room /\ Waiting < MaxInflight
             /\ inflight' = inflight (+) SetToBag({r})
             /\ last' = LearnAnswer(r, 0, "", 0, 1)
  /\ UNCHANGED <<tables, retrainConfig>>

\* the check for an absent field only
CodeMissing_AbsentOnly(etl_function_code) == etl_function_code = NULL

\* if (!etl_function_code)
CodeMissing(etl_function_code) == Falsy(etl_function_code)

\* from the answer of /pages/learn-etl on
LearnPOSTReturn(r, res) ==
  /\ BagIn(r, inflight)
  /\ r.op = "learn"
  /\ inflight' = inflight (-) SetToBag({r})
  /\ LET id == NewId("etl")
         row == EtlRow(id, r.user, r.pageId,
                       EtlBody(r.goal, r.htmlId, NULL, res.etl_function_code,
                               res.entities_schema))
         error == EtlInsertError(row)
     IN IF res.fetch = "throws"
          THEN /\ last' = LearnAnswer(r, 500, "Internal server error", 0, 1)
               /\ UNCHANGED <<etl, ids>>
        ELSE IF ~res.ok
          THEN /\ last' = LearnAnswer(r, 500, "Failed to process ETL learning", 0, 1)
               /\ UNCHANGED <<etl, ids>>
        ELSE IF ~res.json
          THEN /\ last' = LearnAnswer(r, 500, "Internal server error", 0, 1)
               /\ UNCHANGED <<etl, ids>>
        ELSE IF CodeMissing(res.etl_function_code)
          THEN /\ last' = LearnAnswer(r, 500, "ETL function code not generated", 0, 1)
               /\ UNCHANGED <<etl, ids>>
        ELSE IF error # ""
          THEN /\ last' = LearnAnswer(r, 400, error, 0, 1)
               /\ UNCHANGED <<etl, ids>>
        ELSE /\ etl' = etl \cup {row}
             /\ ids' = [ids EXCEPT !.etl = id]
             /\ last' = LearnAnswer(r, 201, "", id, 1)
  /\ UNCHANGED <<pages, html, etl_run, retrainConfig>>

(***************************************************************************)
(* POST /api/pages/{pageId}/etl/{etlId}/run                                *)
(***************************************************************************)
ExecResponses ==
  {[fetch |-> "throws", ok |-> FALSE, json |-> FALSE, errorText |-> Refused,
    output |-> "none"],
   [fetch |-> "answers", ok |-> FALSE, json |-> TRUE, errorText |-> Traceback,
    output |-> "none"],
   [fetch |-> "answers", ok |-> TRUE, json |-> FALSE, errorText |-> "",
    output |-> "none"]}
  \cup
  {[fetch |-> "answers", ok |-> TRUE, json |-> TRUE, errorText |-> "",
    output |-> o] : o \in Outputs}

\* the check without the trim
StillTraining_NoTrim(src_code) == Falsy(src_code)

\* if (!etlConfig.src_code || etlConfig.src_code.trim() === "")
StillTraining(src_code) == Falsy(src_code) \/ trim(src_code) = <<>>

\* the run that ignores the html row asked for
SelectedHtmlRun_TrainingOnly(user, pageId, etlConfig, html_run_id) ==
  HtmlOf(user, pageId, etlConfig.html_page_run_id)

\* the html row the run uses: the one asked for, else the definition's own
SelectedHtmlRun(user, pageId, etlConfig, html_run_id) ==
  IF html_run_id # 0
    THEN HtmlOf(user, pageId, html_run_id)
    ELSE HtmlOf(user, pageId, etlConfig.html_page_run_id)

RunAnswer(user, pageId, etlId, html_run_id, status, msg, made, calls) ==
  [Response("run", user, pageId, status, msg, made)
     EXCEPT !.etlId = etlId, !.htmlId = html_run_id, !.calls = calls]

\* up to the fetch of /pages/execute-etl
RunPOSTCall(user, pageId, etlId, html_run_id) ==
  /\ LET page == PageOf(user, pageId)
         etlConfig == EtlOf(user, pageId, etlId)
         selected == SelectedHtmlRun(user, pageId, etlConfig[1], html_run_id)
         answer(status, msg) ==
           RunAnswer(user, pageId, etlId, html_run_id, status, msg, 0, 0)
     IN IF page = None
          THEN /\ last' = answer(404, "Page not found or access denied")
               /\ UNCHANGED inflight
        ELSE IF etlConfig = None
          THEN /\ last' = answer(404, "ETL configuration not found or access denied")
               /\ UNCHANGED inflight
        ELSE IF StillTraining(etlConfig[1].src_code)
          THEN /\ last' = answer(400, "ETL configuration is still being trained")
               /\ UNCHANGED inflight
        ELSE IF selected = None
          THEN /\ last' = answer(404, IF html_run_id # 0
                                        THEN "HTML run not found or access denied"
                                        ELSE "ETL's associated HTML run not found")
               /\ UNCHANGED inflight
        ELSE /\ Room /\ Waiting < MaxInflight
             /\ inflight' = inflight (+) SetToBag({
                  Request("run", user, pageId, etlId, selected[1].id,
                          etlConfig[1].goal, selected[1].html,
                          etlConfig[1].src_code)})
             /\ last' = RunAnswer(user, pageId, etlId, html_run_id, 0, "", 0, 1)
  /\ UNCHANGED <<tables, retrainConfig>>

\* INSERT INTO etl_run: fk_html and fk_etl_id
\* a table without foreign keys
RunInsertError_Unchecked(row) == ""

RunInsertError(row) ==
  IF ~\E h \in html : h.id = row.html THEN "violates fk_html"
  ELSE IF ~\E e \in etl : e.id = row.etl_id THEN "violates fk_etl_id"
  ELSE ""

\* the handler without the check of executeResponse.ok
ExecuteFailed_StatusIgnored(res) == res.fetch = "throws" \/ ~res.json

\* the answer of /pages/execute-etl is no extraction result
ExecuteFailed(res) == res.fetch = "throws" \/ ~res.ok \/ ~res.json

\* from the answer of /pages/execute-etl on
RunPOSTReturn(r, res) ==
  /\ BagIn(r, inflight)
  /\ r.op = "run"
  /\ inflight' = inflight (-) SetToBag({r})
  /\ LET id == NewId("etl_run")
         row == [id |-> id, html |-> r.htmlId, etl_id |-> r.etlId,
                 output_json |-> res.output, user_id |-> r.user,
                 created_at |-> NOW("etl_run")]
         answer(status, msg, made) ==
           RunAnswer(r.user, r.pageId, r.etlId, r.htmlId, status, msg, made, 1)
     IN IF ExecuteFailed(res)
          THEN /\ last' =
                    [answer(
                       IF res.fetch = "throws" THEN 503 ELSE 500,
                       IF res.fetch = "throws"
                         THEN "Web scraping service is unavailable"
                       ELSE IF ~res.ok THEN "Failed to execute ETL extraction"
                       ELSE "Internal server error", 0)
                     EXCEPT !.details =
                       IF res.fetch = "throws" THEN res.errorText ELSE ""]
               /\ UNCHANGED <<etl_run, ids>>
        ELSE IF RunInsertError(row) # ""
          THEN /\ last' = answer(500, "Failed to save extraction run", 0)
               /\ UNCHANGED <<etl_run, ids>>
        ELSE /\ etl_run' = etl_run \cup {row}
             /\ ids' = [ids EXCEPT !.etl_run = id]
             /\ last' = answer(201, "", id)
  /\ UNCHANGED <<pages, html, etl, retrainConfig>>

(***************************************************************************)
(* The reads: GET /api/pages, GET /api/pages/{pageId}/html and             *)
(* GET /api/pages/{pageId}/etl.  A read changes nothing but the response.  *)
(***************************************************************************)
ListAnswer(op, user, pageId, etlId, limit, offset, status, msg, data) ==
  [Response(op, user, pageId, status, msg, 0)
     EXCEPT !.etlId = etlId, !.limit = limit, !.offset = offset, !.data = data]

PagesGET(user, pageId, limit, offset) ==
  /\ IF pageId # 0
       THEN IF PageOf(user, pageId) = None
              THEN last' = ListAnswer("pages.GET", user, pageId, 0, limit, offset, 400, NoRows, <<>>)
              ELSE last' = ListAnswer("pages.GET", user, pageId, 0, limit, offset, 200, "",
                                      PageOf(user, pageId))
       ELSE last' = ListAnswer("pages.GET", user, pageId, 0, limit, offset, 200, "",
                      Paginate(OrderDescending({p \in pages : p.user_id = user}),
                               limit, offset))
  /\ UNCHANGED <<tables, inflight, retrainConfig>>

\* the list of a page's snapshots, oldest first
HtmlGET_Ascending(user, pageId, limit, offset) ==
  /\ PageOf(user, pageId) # None
  /\ last' = ListAnswer("html.GET", user, pageId, 0, limit, offset, 200, "",
                Paginate(OrderAscending({h \in html : h.page_id = pageId
                                                      /\ h.user_id = user}),
                         limit, offset))
  /\ UNCHANGED <<tables, inflight, retrainConfig>>

HtmlGET(user, pageId, limit, offset) ==
  /\ IF PageOf(user, pageId) = None
       THEN last' = ListAnswer("html.GET", user, pageId, 0, limit, offset, 404,
                               "Page not found or access denied", <<>>)
       ELSE last' = ListAnswer("html.GET", user, pageId, 0, limit, offset, 200, "",
                      Paginate(OrderDescending({h \in html : h.page_id = pageId
                                                             /\ h.user_id = user}),
                               limit, offset))
  /\ UNCHANGED <<tables, inflight, retrainConfig>>

EtlGET(user, pageId, etlId) ==
  /\ IF PageOf(user, pageId) = None
       THEN last' = ListAnswer("etl.GET", user, pageId, etlId, NoParam, NoParam, 404,
                               "Page not found or access denied", <<>>)
     ELSE IF etlId # 0
       THEN IF EtlOf(user, pageId, etlId) = None
              THEN last' = ListAnswer("etl.GET", user, pageId, etlId, NoParam, NoParam, 400, NoRows, <<>>)
              ELSE last' = ListAnswer("etl.GET", user, pageId, etlId, NoParam, NoParam, 200, "",
                                      EtlOf(user, pageId, etlId))
     ELSE last' = ListAnswer("etl.GET", user, pageId, etlId, NoParam, NoParam, 200, "",
                    OrderDescending({e \in etl : e.page_id = pageId
                                                 /\ e.user_id = user}))
  /\ UNCHANGED <<tables, inflight, retrainConfig>>

(***************************************************************************)
(* Realtime.  The database publishes every change of a row of etl_run to   *)
(* the channel of a subscribed page view of the same user: the insert of   *)
(* a request, then the rows a cascade removed.  The events of a channel    *)
(* are delivered in the order of the changes.  A request changes nothing   *)
(* in the browser by itself.                                               *)
(***************************************************************************)
Payloads(eventType, rows) ==
  [i \in 1 .. Len(rows) |-> [eventType |-> eventType, row |-> rows[i]]]

Changes(userId) ==
  Payloads("INSERT",
           OrderDescending({r \in etl_run' \ etl_run : r.user_id = userId}))
  \o Payloads("DELETE",
              OrderDescending({r \in etl_run \ etl_run' : r.user_id = userId}))

Realtime ==
  /\ client' =
       IF client.subscribed
       THEN [client EXCEPT !.events = @ \o Changes(client.userId)]
       ELSE client
  /\ UNCHANGED etlRuns

(***************************************************************************)
(* The system.                                                             *)
(***************************************************************************)
Next ==
  \/ \E user \in Users, url \in Urls : PagesPOST(user, url) /\ Realtime
  \/ \E user \in Users, pageId \in OptionalIds("pages") : PagesDELETE(user, pageId) /\ Realtime
  \/ \E user \in Users, pageId \in KnownIds("pages"), htmlRes \in ScrapeResponses :
       HtmlPOST(user, pageId, htmlRes) /\ Realtime
  \/ \E user \in Users, pageId \in KnownIds("pages"),
        htmlId \in OptionalIds("html") :
       \E body \in ApiBodies(htmlId) : EtlPOST(user, pageId, body) /\ Realtime
  \/ \E e \in etl : handleRetrainClick(e) /\ Realtime
  \/ \E refinementGoal \in Refinements : handleRetrain(refinementGoal) /\ Realtime
  \/ \E user \in Users, pageId \in KnownIds("pages"), goal \in Goals,
        htmlId \in OptionalIds("html") :
       LearnPOSTCall(user, pageId, goal, htmlId) /\ Realtime
  \/ \E r \in BagToSet(inflight), res \in GenResponses : LearnPOSTReturn(r, res) /\ Realtime
  \/ \E user \in Users, pageId \in KnownIds("pages"), etlId \in KnownIds("etl"),
        html_run_id \in OptionalIds("html") :
       RunPOSTCall(user, pageId, etlId, html_run_id) /\ Realtime
  \/ \E r \in BagToSet(inflight), res \in ExecResponses : RunPOSTReturn(r, res) /\ Realtime

Spec == Init /\ [][Next]_vars

(***************************************************************************)
(* The API on its own: every route handler, the reads and the update of a  *)
(* page included, and no dialog.  ApiSpec is the API called by one user,   *)
(* OwnerSpec the API called by two users, and SnapshotSpec the API called  *)
(* by one user while the scraper answers with one of two pages and the     *)
(* two other collaborators answer with a result.                           *)
(***************************************************************************)
\* rows ever inserted plus requests waiting, in ApiSpec
MaxApiRows == 4

\* the same in OwnerSpec
MaxOwnerRows == 4

Callers == {"u1", "u2"}

\* a listing with neither limit nor offset
Unpaged == {<<NoParam, NoParam>>}

\* the same in SnapshotSpec
MaxSnapshotRows == 4

\* the scraper answers with one of two pages
Scraped == {res \in ScrapeResponses : res.ok /\ ~Falsy(res.html)}

TwoPages == Scraped \cup {[ok |-> TRUE, status |-> 200, html |-> <<"B">>]}

Generated == {res \in GenResponses : res.etl_function_code = <<"x">>}

Executed == {res \in ExecResponses : ~ExecuteFailed(res)}

\* the rows ever inserted and the requests waiting stay within max
Within(max) == RowsEver' + BagCardinality(inflight') <= max

ApiCalls(callers, pagings, scrapes, gens, execs, max) ==
  \/ \E user \in callers, url \in Urls : PagesPOST(user, url) /\ Realtime /\ Within(max)
  \/ \E user \in callers, id \in OptionalIds("pages"), url \in PutUrls :
       PagesPUT(user, id, url) /\ Realtime /\ Within(max)
  \/ \E user \in callers, pageId \in OptionalIds("pages") :
       PagesDELETE(user, pageId) /\ Realtime /\ Within(max)
  \/ \E user \in callers, pageId \in OptionalIds("pages"), p \in pagings :
       PagesGET(user, pageId, p[1], p[2]) /\ Realtime /\ Within(max)
  \/ \E user \in callers, pageId \in KnownIds("pages"), htmlRes \in scrapes :
       HtmlPOST(user, pageId, htmlRes) /\ Realtime /\ Within(max)
  \/ \E user \in callers, pageId \in KnownIds("pages"), p \in pagings :
       HtmlGET(user, pageId, p[1], p[2]) /\ Realtime /\ Within(max)
  \/ \E user \in callers, pageId \in KnownIds("pages"),
        htmlId \in OptionalIds("html") :
       \E body \in ApiBodies(htmlId) : EtlPOST(user, pageId, body) /\ Realtime /\ Within(max)
  \/ \E user \in callers, pageId \in KnownIds("pages"),
        etlId \in OptionalIds("etl") :
       EtlGET(user, pageId, etlId) /\ Realtime /\ Within(max)
  \/ \E user \in callers, pageId \in KnownIds("pages"), goal \in Goals,
        htmlId \in OptionalIds("html") :
       LearnPOSTCall(user, pageId, goal, htmlId) /\ Realtime /\ Within(max)
  \/ \E r \in BagToSet(inflight), res \in gens :
       LearnPOSTReturn(r, res) /\ Realtime /\ Within(max)
  \/ \E user \in callers, pageId \in KnownIds("pages"),
        etlId \in KnownIds("etl"), html_run_id \in OptionalIds("html") :
       RunPOSTCall(user, pageId, etlId, html_run_id) /\ Realtime /\ Within(max)
  \/ \E r \in BagToSet(inflight), res \in execs :
       RunPOSTReturn(r, res) /\ Realtime /\ Within(max)

ApiNext ==
  ApiCalls(Users, Paginations, ScrapeResponses, GenResponses, ExecResponses,
           MaxApiRows)

ApiSpec == Init /\ [][ApiNext]_vars

OwnerNext ==
  ApiCalls(Callers, Unpaged, Scraped, Generated, Executed, MaxOwnerRows)

OwnerSpec == Init /\ [][OwnerNext]_vars

SnapshotNext ==
  ApiCalls(Users, Unpaged, TwoPages, Generated, Executed, MaxSnapshotRows)

SnapshotSpec == Init /\ [][SnapshotNext]_vars

(***************************************************************************)
(* The page of a page's details.  The server loads the page and renders    *)
(* PageDetailsClient with the rows it read; the effect of the mounted view *)
(* subscribes to the changes of etl_run of the user, and the handler of    *)
(* the channel applies one change to the state etlRuns.  No route updates  *)
(* a row of etl_run, so there is no UPDATE event.  ExtractionsSection      *)
(* copies etlRuns into its own state of the same name whenever it changes, *)
(* filters it for each definition of the page and shows the first rows.    *)
(***************************************************************************)
\* rows ever inserted plus requests waiting, in HistorySpec
MaxHistoryRows == 5

\* the loader reads the most recent runs of the user
RecentRuns == 10

\* the history of a definition shows its first runs
ShownRuns == 5

PageDetails(user, pageId) ==
  /\ client = Unmounted
  /\ PageOf(user, pageId) # None
  /\ LET initialEtlRuns ==
           Paginate(OrderDescending({r \in etl_run : r.user_id = user}),
                    RecentRuns, NoParam)
     IN /\ client' = [Unmounted EXCEPT !.pageId = pageId, !.userId = user,
                                       !.initialEtlRuns = initialEtlRuns]
        /\ etlRuns' = initialEtlRuns
  /\ UNCHANGED <<pages, html, etl, etl_run, ids, inflight, retrainConfig, last>>

subscribe ==
  /\ client.pageId # 0
  /\ ~client.subscribed
  /\ client' = [client EXCEPT !.subscribed = TRUE]
  /\ UNCHANGED <<pages, html, etl, etl_run, ids, inflight, retrainConfig, last,
                 etlRuns>>

\* the handler that puts a new run at the end of the state
postgres_changes_Appends ==
  /\ client.events # <<>>
  /\ LET payload == Head(client.events)
     IN etlRuns' =
          IF payload.eventType = "INSERT"
          THEN etlRuns \o <<payload.row>>
          ELSE SelectSeq(etlRuns, LAMBDA run : run.id # payload.row.id)
  /\ client' = [client EXCEPT !.events = Tail(@)]
  /\ UNCHANGED <<pages, html, etl, etl_run, ids, inflight, retrainConfig, last>>

postgres_changes ==
  /\ client.events # <<>>
  /\ LET payload == Head(client.events)
     IN etlRuns' =
          IF payload.eventType = "INSERT"
          THEN <<payload.row>> \o etlRuns
          ELSE SelectSeq(etlRuns, LAMBDA run : run.id # payload.row.id)
  /\ client' = [client EXCEPT !.events = Tail(@)]
  /\ UNCHANGED <<pages, html, etl, etl_run, ids, inflight, retrainConfig, last>>

unsubscribe ==
  /\ client.pageId # 0
  /\ client' = Unmounted
  /\ etlRuns' = <<>>
  /\ UNCHANGED <<pages, html, etl, etl_run, ids, inflight, retrainConfig, last>>

\* the definitions and the snapshots the open view shows
etls == {e \in etl : e.page_id = client.pageId /\ e.user_id = client.userId}

htmlRuns == {h \in html : h.page_id = client.pageId /\ h.user_id = client.userId}

getRunsForEtl(etlId) ==
  IF \A e \in etls : e.id # etlId
  THEN <<>>
  ELSE SelectSeq(etlRuns,
                 LAMBDA run :
                   IF run.etl_id # 0
                   THEN run.etl_id = etlId
                   ELSE run.html \in {htmlRun.id : htmlRun \in htmlRuns})

\* runs.slice(0, 5)
RunHistory(etlId) ==
  LET runs == getRunsForEtl(etlId)
  IN SubSeq(runs, 1, IF Len(runs) < ShownRuns THEN Len(runs) ELSE ShownRuns)

HistoryNext ==
  \/ \E user \in Users, url \in Urls :
       PagesPOST(user, url) /\ Realtime /\ Within(MaxHistoryRows)
  \/ \E user \in Users, pageId \in KnownIds("pages") :
       PagesDELETE(user, pageId) /\ Realtime /\ Within(MaxHistoryRows)
  \/ \E user \in Users, pageId \in KnownIds("pages"), htmlRes \in Scraped :
       HtmlPOST(user, pageId, htmlRes) /\ Realtime /\ Within(MaxHistoryRows)
  \/ \E user \in Users, pageId \in KnownIds("pages"), goal \in Goals,
        htmlId \in KnownIds("html") :
       /\ LearnPOSTCall(user, pageId, goal, htmlId)
       /\ Realtime /\ Within(MaxHistoryRows)
  \/ \E r \in BagToSet(inflight), res \in Generated :
       LearnPOSTReturn(r, res) /\ Realtime /\ Within(MaxHistoryRows)
  \/ \E user \in Users, pageId \in KnownIds("pages"),
        etlId \in KnownIds("etl"), html_run_id \in OptionalIds("html") :
       /\ RunPOSTCall(user, pageId, etlId, html_run_id)
       /\ Realtime /\ Within(MaxHistoryRows)
  \/ \E r \in BagToSet(inflight), res \in Executed :
       RunPOSTReturn(r, res) /\ Realtime /\ Within(MaxHistoryRows)
  \/ \E user \in Users, pageId \in KnownIds("pages") : PageDetails(user, pageId)
  \/ subscribe
  \/ postgres_changes
  \/ unsubscribe

HistorySpec == Init /\ [][HistoryNext]_vars

(***************************************************************************)
(* The loader of the page view over a user's run history: one page of the  *)
(* user with one snapshot and two READY definitions, and the runs of up to *)
(* MaxRuns successful Executes, each of one of the two definitions.        *)
(***************************************************************************)
MaxRuns == 11

TrainedPage ==
  [id |-> 1, user_id |-> "u1", created_at |-> 1, url |-> "https://a"]

TrainedSnapshot ==
  [id |-> 1, user_id |-> "u1", page_id |-> 1, html |-> <<"A">>,
   meta |-> HtmlMeta(TrainedPage, [ok |-> TRUE, status |-> 200, html |-> <<"A">>]),
   created_at |-> 1]

TrainedDefinition(id) ==
  [id |-> id, user_id |-> "u1", page_id |-> 1, etl_name |-> NULL,
   goal |-> <<"g">>, src_code |-> <<"x">>, html_page_run_id |-> 1,
   output_json_schema |-> None, created_at |-> id]

\* the row the run route inserts for the id-th Execute
ExecutedRun(id, etlId) ==
  [id |-> id, html |-> 1, etl_id |-> etlId, output_json |-> "out",
   user_id |-> "u1", created_at |-> id]

LoaderInit ==
  /\ pages = {TrainedPage}
  /\ html = {TrainedSnapshot}
  /\ etl = {TrainedDefinition(1), TrainedDefinition(2)}
  /\ \E n \in 0 .. MaxRuns : \E of \in [1 .. n -> {1, 2}] :
       /\ etl_run = {ExecutedRun(i, of[i]) : i \in 1 .. n}
       /\ ids = [pages |-> 1, html |-> 1, etl |-> 2, etl_run |-> n]
  /\ inflight = EmptyBag
  /\ retrainConfig = None
  /\ last = Response("none", "", 0, 0, "", 0)
  /\ etlRuns = <<>>
  /\ client = Unmounted

LoaderNext ==
  \/ \E user \in Users, pageId \in KnownIds("pages") : PageDetails(user, pageId)
  \/ unsubscribe

LoaderSpec == LoaderInit /\ [][LoaderNext]_vars

(***************************************************************************)
(* The properties.  The states of a definition, as the specification names *)
(* them, and the request the response last answers.                        *)
(***************************************************************************)
\* PENDING_TRAINING: the code is empty or nothing but whitespace
PendingTraining(d) ==
  \A i \in 1 .. Len(d.src_code) : d.src_code[i] \in Whitespace

READY(d) == ~PendingTraining(d)

\* the definitions the request of last names, by page, owner and id
NamedDefinition ==
  {d \in etl : d.id = last.etlId /\ d.page_id = last.pageId
               /\ d.user_id = last.user}

NotReadyAnswer ==
  /\ last.status = 400
  /\ last.error = "ETL configuration is still being trained"

RunsOf(d) == {r \in etl_run : r.etl_id = d.id}

ExecuteCallsWaiting(etlId, htmlId) ==
  LET same == {r \in BagToSet(inflight) :
                 r.op = "run" /\ r.etlId = etlId /\ r.htmlId = htmlId}
  IN BagCardinality([r \in same |-> inflight[r]])

\* C1: for a fixed (definition, snapshot) pair, overlapping Execute requests
\* make at most one call to the execution collaborator: at no time are two
\* calls to /pages/execute-etl for the same pair waiting for their answer.
C1_AtMostOneExecuteCallPerPair ==
  \A r \in BagToSet(inflight) :
    r.op = "run" => ExecuteCallsWaiting(r.etlId, r.htmlId) <= 1

\* C2: Execute against a definition in PENDING_TRAINING is answered NotReady
\* whatever snapshot is asked for; no call to the execution collaborator is
\* made or waiting for it, and no run of it is persisted.
C2_PendingDefinitionNotReady ==
  \A d \in etl : PendingTraining(d) =>
    /\ (last.op = "run" /\ d \in NamedDefinition) =>
         NotReadyAnswer /\ last.calls = 0 /\ last.made = 0
    /\ \A r \in BagToSet(inflight) : ~(r.op = "run" /\ r.etlId = d.id)
    /\ RunsOf(d) = {}

\* Execute was asked, with a snapshot named, for a definition whose code is
\* only whitespace, and it has answered
C2_Witness ==
  /\ last.op = "run" /\ last.htmlId # 0 /\ last.status # 0
  /\ \E d \in NamedDefinition : d.src_code = <<" ">>

\* the request of last is an Execute that names an existing definition and
\* an existing snapshot of another page than the definition's
CrossPage ==
  /\ last.op = "run"
  /\ NamedDefinition # {}
  /\ \E h \in html : /\ h.id = last.htmlId /\ h.user_id = last.user
                     /\ h.page_id # last.pageId

NotFoundAnswer == last.status = 404

C4_LearnNeverLeavesPending ==
  (last.op = "learn" /\ last.made # 0) =>
    \A d \in etl : d.id = last.made => READY(d)

\* the generation collaborator did not answer with extraction code
GenerationFailed(res) ==
  \/ res.fetch = "throws"
  \/ ~res.ok
  \/ ~res.json
  \/ res.etl_function_code \in {NULL, <<>>}

\* C5: a Learn whose generation collaborator fails, answers with a
\* non-success status or answers without extraction code, fails (500) and
\* leaves the persisted definitions exactly as they were.
C5_FailedLearnPersistsNothing ==
  [][\A r \in BagToSet(inflight), res \in GenResponses :
       (LearnPOSTReturn(r, res) /\ GenerationFailed(res)) =>
         /\ etl' = etl
         /\ last'.op = "learn" /\ last'.status = 500 /\ last'.made = 0]_vars

\* a Learn has failed because the answer carried no code
C5_Witness ==
  /\ last.op = "learn" /\ last.status = 500
  /\ last.error = "ETL function code not generated"

\* the execution collaborator failed: network error, non-success status or a
\* body that is not JSON
ExecutionFailed(res) == res.fetch = "throws" \/ ~res.ok \/ ~res.json

\* C6: an Execute whose execution collaborator fails persists no run, so the
\* etl_run rows are the same after it as before, and the caller gets an error.
C6_FailedExecutePersistsNothing ==
  [][\A r \in BagToSet(inflight), res \in ExecResponses :
       (RunPOSTReturn(r, res) /\ ExecutionFailed(res)) =>
         /\ etl_run' = etl_run
         /\ last'.op = "run" /\ last'.status >= 500 /\ last'.made = 0]_vars

\* an Execute has failed on a non-success status of the collaborator
C6_Witness ==
  /\ last.op = "run" /\ last.status = 500
  /\ last.error = "Failed to execute ETL extraction"

\* the definition the retrain dialog was opened on, while it exists
RetrainParent == {d \in etl : last.op = "retrain" /\ d.id = last.etlId}

\* C7: Retrain on a READY definition d persists a new definition d2 with an
\* identifier other than d's and on d's page (d itself is still there).
C7_RetrainCreatesNewDefinition ==
  \A d \in RetrainParent : READY(d) =>
    /\ last.status = 201
    /\ \E d2 \in etl : d2.id = last.made /\ d2.id # d.id
                       /\ d2.page_id = d.page_id

IsPrefix(s, t) == Len(s) <= Len(t) /\ SubSeq(t, 1, Len(s)) = s

IsSuffix(s, t) ==
  Len(s) <= Len(t) /\ SubSeq(t, Len(t) - Len(s) + 1, Len(t)) = s

\* C8: the definition Retrain produces from d and a refinement is trained on
\* d's snapshot and its goal is d's goal followed by the refinement text.
C8_RetrainKeepsSnapshotAndExtendsGoal ==
  \A d \in RetrainParent : READY(d) =>
    \E d2 \in etl, refinementGoal \in Refinements :
      /\ d2.id = last.made
      /\ d2.html_page_run_id = d.html_page_run_id
      /\ IsPrefix(d.goal, d2.goal) /\ IsSuffix(refinementGoal, d2.goal)
      /\ Len(d2.goal) > Len(d.goal)

\* the answers of the checks made on the request before anything else
ValidationErrors ==
  {"Page not found or access denied", "Goal is required",
   "HTML run selection is required", "HTML run not found or access denied"}

\* C9: a Learn or a Retrain that passes input validation makes exactly one
\* call to the generation collaborator, whether it succeeds or fails.
C9_ExactlyOneGenerationCall ==
  (last.op \in {"learn", "retrain"} /\ last.error \notin ValidationErrors) =>
    last.calls = 1

C12_SnapshotsImmutable ==
  [][\A h \in html : \A h2 \in html' : h2.id = h.id => h2 = h]_vars

\* the page of a snapshot has been given another url than the one recorded
\* in the snapshot's metadata
C12_Witness ==
  \E h \in html, p \in pages : p.id = h.page_id /\ p.url # h.meta.url

\* the definitions and the snapshots a run refers to
DefinitionsOf(r) == {d \in etl : d.id = r.etl_id}

SnapshotsOf(r) == {h \in html : h.id = r.html}

\* C13: in every reachable state every persisted run refers to exactly one
\* existing definition and exactly one existing snapshot, and the two are of
\* the same page.
C13_RunOfOnePage ==
  \A r \in etl_run :
    /\ Cardinality(DefinitionsOf(r)) = 1
    /\ Cardinality(SnapshotsOf(r)) = 1
    /\ \A d \in DefinitionsOf(r), h \in SnapshotsOf(r) : d.page_id = h.page_id

\* a run was persisted on another snapshot than the one its definition was
\* trained on
C13_Witness ==
  \E r \in etl_run : \E d \in DefinitionsOf(r) : r.html # d.html_page_run_id

\* the ids handed out in a table whose rows are gone: rows only go by the
\* cascade of a page delete
Deleted(t, rows) == {i \in 1 .. ids[t] : ~\E row \in rows : row.id = i}

\* the response last answers a request made after the delete that names a
\* deleted page, snapshot or definition: a list or get of snapshots or
\* definitions, a Learn with a goal or an Execute, answered without waiting
NamesDeleted ==
  /\ last.op \in {"html.GET", "etl.GET", "learn", "run"}
  /\ last.calls = 0
  /\ last.error # "Goal is required"
  /\ \/ last.pageId \in Deleted("pages", pages)
     \/ last.htmlId \in Deleted("html", html)
     \/ last.etlId \in Deleted("etl", etl)

\* C14: after the owner deletes a page none of its snapshots, definitions
\* and runs exists any more, and every later request that names one of them
\* is answered NotFound.
C14_DeletedIsNotFound ==
  /\ \A h \in html : \E p \in pages : p.id = h.page_id
  /\ \A d \in etl : \E p \in pages : p.id = d.page_id
  /\ \A r \in etl_run : DefinitionsOf(r) # {} /\ SnapshotsOf(r) # {}
  /\ NamesDeleted => NotFoundAnswer

(***************************************************************************)
(* Properties of the API called by two users.                              *)
(***************************************************************************)
\* the response last answers a request of one user that names a page, a
\* snapshot or a definition of another user
CrossOwner ==
  /\ last.op \in {"pages.GET", "pages.PUT", "pages.DELETE", "html.POST",
                  "html.GET", "etl.GET", "etl.POST", "learn", "run"}
  /\ last.calls = 0
  /\ last.error # "Goal is required"
  /\ \/ \E p \in pages : p.id = last.pageId /\ p.user_id # last.user
     \/ \E h \in html : h.id = last.htmlId /\ h.user_id # last.user
     \/ \E d \in etl : d.id = last.etlId /\ d.user_id # last.user

\* C15: every operation of a user against a page, a snapshot or a definition
\* owned by another user is rejected with NotFound and with no other outcome,
\* and returns nothing of the other user's data.
C15_CrossOwnerIsNotFound ==
  CrossOwner =>
    /\ NotFoundAnswer
    /\ \A i \in 1 .. Len(last.data) : last.data[i].user_id = last.user

(***************************************************************************)
(* Properties of the snapshot store.                                       *)
(***************************************************************************)
\* C16: a snapshot is created with exactly the HTML the scraper answered,
\* keeps it whatever is done afterwards, and every later read of it yields
\* that HTML: the listing returns the stored rows, and the HTML that Learn
\* and Execute send to their collaborator is the stored HTML, compressed and
\* encoded.
C16_SnapshotReadsStoredHtml ==
  [][/\ (last'.op = "html.POST" /\ last'.status = 201) =>
          \A htmlRes \in TwoPages :
            HtmlPOST(last'.user, last'.pageId, htmlRes) =>
              \E h \in html' : h.id = last'.made /\ h.html = htmlRes.html
     /\ \A h \in html, h2 \in html' : h2.id = h.id => h2.html = h.html
     /\ last'.op = "html.GET" =>
          \A i \in 1 .. Len(last'.data) : last'.data[i] \in html'
     /\ \A r \in BagToSet(inflight'), h \in html' :
          h.id = r.htmlId => r.html = Base64(Gzip(h.html))]_vars

\* Learn is reading the second of two snapshots of a page, of another
\* content than the first
C16_Witness ==
  \E r \in BagToSet(inflight), h \in html, h1 \in html :
    /\ r.op = "learn" /\ h.id = r.htmlId
    /\ h1.page_id = h.page_id /\ h1.id < h.id /\ h1.html # h.html

\* InvalidInput, as the routes answer a missing required field: status 400
InvalidInput(response) == response.status = 400

\* a snapshot creation on a page of the caller for which the scraper
\* answered with no HTML or with empty HTML
EmptyScrape(user, pageId, htmlRes) ==
  /\ last'.op = "html.POST" /\ last'.user = user /\ last'.pageId = pageId
  /\ htmlRes.ok /\ htmlRes.html \in {NULL, <<>>}
  /\ PageOf(user, pageId) # None
  /\ HtmlPOST(user, pageId, htmlRes)

Listing(response) == response.op = "html.GET" /\ response.status = 200

SameQuery(q, r) ==
  /\ q.op = r.op /\ q.user = r.user /\ q.pageId = r.pageId
  /\ q.limit = r.limit /\ q.offset = r.offset

\* C18: the listing of the snapshots of a page, with or without limit and
\* offset, returns snapshots of that page only, most recent first by
\* creation time, and the same query repeated with no write in between
\* returns the same sequence.
C18_ListSnapshotsOrdered ==
  [][Listing(last') =>
       /\ \A i \in 1 .. Len(last'.data) :
            /\ last'.data[i].page_id = last'.pageId
            /\ last'.data[i] \in html'
       /\ \A i, j \in 1 .. Len(last'.data) :
            i < j => last'.data[i].created_at > last'.data[j].created_at
       /\ (Listing(last) /\ SameQuery(last, last') /\ html' = html) =>
            last'.data = last.data]_vars

\* a listing without limit and offset returned two snapshots or more
C18_Witness ==
  /\ Listing(last) /\ Len(last.data) >= 2
  /\ last.limit = NoParam /\ last.offset = NoParam

\* the rows of a sequence are in creation order, the most recent first
MostRecentFirst(rows) ==
  \A i, j \in 1 .. Len(rows) : i < j => rows[i].created_at > rows[j].created_at

\* C19: the run history a page view shows for a definition holds runs of
\* that definition only, in creation order with the most recent first, after
\* the load and after every run that arrives through the realtime handler.
C19_RunHistoryMostRecentFirst ==
  \A e \in etls :
    LET runs == RunHistory(e.id)
    IN /\ \A i \in 1 .. Len(runs) : runs[i].etl_id = e.id
       /\ MostRecentFirst(runs)

\* a history of two runs: one the load read, one the handler put before it
C19_Witness ==
  /\ client.subscribed
  /\ \E e \in etls :
       LET runs == RunHistory(e.id)
           loaded == {client.initialEtlRuns[i] :
                        i \in 1 .. Len(client.initialEtlRuns)}
       IN /\ Len(runs) >= 2
          /\ runs[1] \notin loaded
          /\ runs[2] \in loaded

\* the top-level keys of an output: the output of the executor, "out",
\* stands for the object {title: "x"}
TopLevelKeys(output_json) == IF output_json = "out" THEN {"title"} ELSE {}

\* C20: a run persisted by Execute for a definition with a declared schema
\* carries a flag drifted, true when the top-level keys of its output are
\* not the declared fields and false when they are.
C20_RunCarriesDrifted ==
  \A r \in etl_run :
    \A d \in DefinitionsOf(r) :
      d.output_json_schema # None =>
        /\ "drifted" \in DOMAIN r
        /\ r.drifted = (TopLevelKeys(r.output_json) # d.output_json_schema[1])

\* the step is an Execute that answered without calling the collaborator
Rejected == last'.op = "run" /\ last'.calls = 0

\* the lookups of the Execute that last' answers find a page, a trained
\* definition of it and the snapshot asked for
Executable ==
  LET etlConfig == EtlOf(last'.user, last'.pageId, last'.etlId)
  IN /\ PageOf(last'.user, last'.pageId) # None
     /\ etlConfig # None
     /\ ~StillTraining(etlConfig[1].src_code)
     /\ SelectedHtmlRun(last'.user, last'.pageId, etlConfig[1],
                        last'.htmlId) # None

\* the step is the end of an Execute whose collaborator answered with a result
Succeeded(r) ==
  /\ r.op = "run"
  /\ last'.op = "run" /\ last'.calls = 1 /\ last'.status # 0
  /\ \E res \in Executed : RunPOSTReturn(r, res)

\* the step adds one run of the pair of r under an id no run has
NewRun(r) ==
  /\ last'.status = 201
  /\ etl_run \subseteq etl_run'
  /\ \E row \in etl_run' \ etl_run :
       /\ etl_run' = etl_run \cup {row}
       /\ row.id = last'.made
       /\ row.etl_id = r.etlId /\ row.html = r.htmlId
       /\ \A old \in etl_run : old.id # row.id

\* C21 as stated: an Execute is never rejected because of an earlier Execute
\* on its pair, however that one ended, and whenever its collaborator call
\* succeeds it creates a new run with a new identifier and leaves every
\* earlier run unchanged.
C21_Original_AlwaysNewRun ==
  [][/\ Rejected => ~Executable
     /\ \A r \in BagToSet(inflight) : Succeeded(r) => NewRun(r)]_vars

\* C21 as amended: an Execute is never rejected because of an earlier
\* Execute on its pair, however that one ended, and whenever its collaborator
\* call succeeds while the definition and the snapshot still exist, it
\* creates a new run with a new identifier and leaves every earlier run
\* unchanged.
C21_RerunCreatesNewRun ==
  [][/\ Rejected => ~Executable
     /\ \A r \in BagToSet(inflight) :
          (/\ Succeeded(r)
           /\ \E d \in etl : d.id = r.etlId
           /\ \E h \in html : h.id = r.htmlId) => NewRun(r)]_vars

\* a second Execute on a pair, after the first one ended, has created a
\* second run of the pair
C21_Witness ==
  /\ last.op = "run" /\ last.status = 201
  /\ \E r1, r2 \in etl_run :
       /\ r1.id # r2.id /\ r2.id = last.made
       /\ r1.etl_id = r2.etl_id /\ r1.html = r2.html
  /\ inflight = EmptyBag

\* the collaborator failed and said why: it could not be reached, or it
\* answered with a non-success status and a body
Diagnosed(res) == res.fetch = "throws" \/ ~res.ok

\* C22: whenever the generation or the execution collaborator fails, the
\* error Learn or Execute returns carries the diagnostic text of the
\* collaborator, and the handler has called the collaborator once.
C22_FailureCarriesDiagnostic ==
  [][\A r \in BagToSet(inflight) :
       /\ \A res \in GenResponses :
            (Diagnosed(res) /\ LearnPOSTReturn(r, res)) =>
              last'.details = res.errorText /\ last'.calls = 1
       /\ \A res \in ExecResponses :
            (Diagnosed(res) /\ RunPOSTReturn(r, res)) =>
              last'.details = res.errorText /\ last'.calls = 1]_vars

\* the step is a Learn that has just been asked: it answers at once or
\* starts to wait for the generation collaborator
LearnAsked ==
  /\ last'.op = "learn"
  /\ BagCardinality(inflight') >= BagCardinality(inflight)

\* the snapshot named by the Learn that last' answers does not exist or is
\* of another page than the one named
NoSnapshotOfPage ==
  \A h \in html : h.id = last'.htmlId => h.page_id # last'.pageId

\* C23: a Learn naming a snapshot that does not exist or that belongs to
\* another page fails at once: no call to the generation collaborator is
\* made or left waiting, and no definition is persisted.
C23_LearnChecksSnapshot ==
  [][(LearnAsked /\ NoSnapshotOfPage) =>
       /\ last'.status \in {400, 404}
       /\ last'.calls = 0 /\ last'.made = 0
       /\ inflight' = inflight
       /\ etl' = etl /\ ids' = ids]_vars

\* a Learn on a page of the caller, with a goal, naming a snapshot of another
\* page, has been answered
C23_Witness ==
  /\ last.op = "learn" /\ last.status = 404
  /\ last.error = "HTML run not found or access denied"
  /\ \E h \in html : h.id = last.htmlId /\ h.page_id # last.pageId

Sent == {r \in BagToSet(inflight') :
           r.op = "run" /\ CopiesIn(r, inflight') > CopiesIn(r, inflight)}

\* the Execute requests that stop waiting in the step
Answered == {r \in BagToSet(inflight) :
               r.op = "run" /\ CopiesIn(r, inflight') < CopiesIn(r, inflight)}

\* C25: what an Execute sends to the execution collaborator is the code of
\* the definition it names and the HTML of the snapshot asked for, or of the
\* definition's training snapshot when none is asked for, and the run it
\* persists records the ids of that definition and of that snapshot.
C25_RunRecordsWhatWasSent ==
  [][/\ \A r \in Sent :
          /\ r.etlId = last'.etlId
          /\ \E d \in etl :
               /\ d.id = r.etlId
               /\ r.etl_function_code = d.src_code
               /\ r.htmlId = IF last'.htmlId # 0 THEN last'.htmlId
                             ELSE d.html_page_run_id
          /\ \E h \in html : h.id = r.htmlId /\ r.html = Base64(Gzip(h.html))
     /\ \A row \in etl_run' \ etl_run :
          /\ Answered # {}
          /\ \A r \in Answered : row.etl_id = r.etlId /\ row.html = r.htmlId]_vars

\* an Execute that asked for another snapshot than the training snapshot of
\* its definition has persisted its run
C25_Witness ==
  /\ last.op = "run" /\ last.status = 201
  /\ \E row \in etl_run :
       /\ row.id = last.made
       /\ \E d \in DefinitionsOf(row) : row.html # d.html_page_run_id

\* the answer is the error Timeout
Timeout(response) == response.status \in {408, 504}

\* the handler gives up waiting for the collaborator of r: the request ends
\* with Timeout and nothing is persisted
DeadlinePasses(r) ==
  /\ inflight' = inflight (-) SetToBag({r})
  /\ Timeout(last')
  /\ etl' = etl /\ etl_run' = etl_run

\* C26: a Learn or an Execute whose collaborator does not answer can end
\* without it: while a request waits, a step of the system is possible that
\* aborts the wait, answers the caller with Timeout and persists neither a
\* definition nor a run.
C26_DeadlineEndsTheWait ==
  \A r \in BagToSet(inflight) : ENABLED (Next /\ DeadlinePasses(r))

(***************************************************************************)
(* C27.  Every persisted definition's code is the code the generation      *)
(* collaborator returned for that definition's goal and training snapshot: *)
(* a step that persists a definition is the return of a Learn request for  *)
(* that goal and snapshot, and the stored code is the code of the answer.  *)
(* No operation persists code, empty or not, that its caller supplied.     *)
(***************************************************************************)
GeneratedFor(e) ==
  \E r \in BagToSet(inflight), res \in GenResponses :
    /\ r.op = "learn" /\ r.goal = e.goal /\ r.htmlId = e.html_page_run_id
    /\ res.etl_function_code = e.src_code
    /\ LearnPOSTReturn(r, res)

C27_CodeComesFromGeneration ==
  [][\A e \in etl' \ etl : GeneratedFor(e)]_vars

(***************************************************************************)
(* C28.  After any interleaving of page creation, snapshot creation,       *)
(* Learn, definition creation, Execute and page deletion, the training     *)
(* snapshot of every persisted definition (html_page_run_id) is an         *)
(* existing snapshot of the definition's own page, although the column     *)
(* has no foreign key.                                                     *)
(***************************************************************************)
TrainedOnOwnPage(e) ==
  \E h \in html : h.id = e.html_page_run_id /\ h.page_id = e.page_id

DeletedWhileWaiting(r) ==
  /\ r.op = "run"
  /\ ~\E p \in pages : p.id = r.pageId
  /\ ~\E e \in etl : e.id = r.etlId
  /\ ~\E h \in html : h.id = r.htmlId

\* this step is the return of the waiting request r
Returns(r) == inflight' = inflight (-) SetToBag({r})

Dangling(run) ==
  \/ ~\E e \in etl : e.id = run.etl_id
  \/ ~\E h \in html : h.id = run.html

C29_LateInsertFails ==
  [][/\ \A r \in BagToSet(inflight) :
          (DeletedWhileWaiting(r) /\ Returns(r)) =>
            /\ etl_run' = etl_run
            /\ last'.op = "run" /\ last'.etlId = r.etlId
            /\ last'.status >= 400 /\ last'.made = 0
     /\ (\A run \in etl_run : ~Dangling(run))']_vars

\* the execution collaborator answered with a result after the page was
\* deleted, and the insert of the run failed
C29_Witness ==
  /\ last.op = "run" /\ last.calls = 1
  /\ last.status = 500 /\ last.error = "Failed to save extraction run"
  /\ ~\E p \in pages : p.id = last.pageId

(***************************************************************************)
(* C30.  The runs the page view computes for a definition D of the page,   *)
(* getRunsForEtl over the rows PageDetails loaded, are exactly the         *)
(* persisted runs whose etl_id is D: none of another definition, none of D *)
(* missing, however many runs the user has.                                *)
(***************************************************************************)
ComputedRuns(etlId) ==
  {getRunsForEtl(etlId)[i] : i \in 1 .. Len(getRunsForEtl(etlId))}

PersistedRuns(etlId) == {run \in etl_run : run.etl_id = etlId}

C30_ViewShowsEveryRunOfD ==
  (client.pageId # 0 /\ etlRuns = client.initialEtlRuns) =>
    \A e \in etls : ComputedRuns(e.id) = PersistedRuns(e.id)

====
